---- MODULE Spec2Model ----
(***************************************************************************)
(* Batch normalisation with moving statistics, as implemented in           *)
(* chapter04_convolutional-neural-networks/cnn-batch-norm-scratch.ipynb:   *)
(* pure_batch_norm, batch_norm and the global dictionaries                 *)
(* _BN_MOVING_MEANS / _BN_MOVING_VARS.                                     *)
(*                                                                         *)
(* Numbers are exact rationals <<n, d>> (d > 0, lowest terms).  A value    *)
(* that went through nd.sqrt is kept in the closed form                    *)
(*      rat + num / sqrt(rad)                                              *)
(* so that no rounding is invented.  An NDArray is a record                *)
(* [shape, data] with data in row-major order, as nd.array(..).reshape.    *)
(***************************************************************************)
EXTENDS Integers, Sequences, FiniteSets, TLC

----------------------------------------------------------------------------
(* Exact rational arithmetic: the elementwise +, -, *, / of mxnet.nd.       *)

RECURSIVE GCD(_, _)
GCD(a, b) ==
    IF b = 0 THEN a ELSE GCD(b, a % b)

Abs(a) ==
    IF a < 0 THEN -a ELSE a

Norm(n, d) ==
    IF d = 1 THEN <<n, 1>>
    ELSE LET g == GCD(Abs(n), d) IN <<n \div g, d \div g>>

Rat(n, d) ==
    Norm(n, d)

Int2R(n) ==
    <<n, 1>>

RZero ==
    <<0, 1>>

ROne ==
    <<1, 1>>

RNeg(p) ==
    <<-p[1], p[2]>>

RAdd(p, q) ==
    IF p[2] = q[2]
    THEN Norm(p[1] + q[1], p[2])
    ELSE LET g == GCD(p[2], q[2])
             l == (p[2] \div g) * q[2]
         IN  Norm(p[1] * (l \div p[2]) + q[1] * (l \div q[2]), l)

RSub(p, q) ==
    RAdd(p, RNeg(q))

RMul(p, q) ==
    IF p[1] = 0 \/ q[1] = 0
    THEN RZero
    ELSE IF p[2] = 1 /\ q[2] = 1
    THEN <<p[1] * q[1], 1>>
    ELSE LET g1 == GCD(Abs(p[1]), q[2])
             g2 == GCD(Abs(q[1]), p[2])
         IN  <<(p[1] \div g1) * (q[1] \div g2), (p[2] \div g2) * (q[2] \div g1)>>

RInv(p) ==
    IF p[1] < 0 THEN <<-p[2], -p[1]>> ELSE <<p[2], p[1]>>

RDiv(p, q) ==
    RMul(p, RInv(q))

RLeq(p, q) ==
    p[1] * q[2] <= q[1] * p[2]

----------------------------------------------------------------------------
(* Values that contain a square root: rat + num / sqrt(rad), rad > 0.       *)
(* A zero numerator makes the root term vanish, as 0 / x = 0 and 0 * x = 0  *)
(* for every finite x.                                                      *)

Alg(b, c, r) ==
    IF c = RZero THEN [rat |-> b, num |-> RZero, rad |-> ROne]
                 ELSE [rat |-> b, num |-> c, rad |-> r]

\* d * 1.0 / nd.sqrt(r)
DivSqrt(d, r) ==
    Alg(RZero, d, r)

\* as ScaleShift, with the shift inside the scaling: g * (x + b)
ScaleShiftInside(g, x, b) ==
    Alg(RMul(g, RAdd(x.rat, b)), RMul(g, x.num), x.rad)

\* g * x + b  for a rational g, b and x = num / sqrt(rad)
ScaleShift(g, x, b) ==
    Alg(RAdd(RMul(g, x.rat), b), RMul(g, x.num), x.rad)

----------------------------------------------------------------------------
(* NDArrays.                                                                *)

RECURSIVE Prod(_)
Prod(s) ==
    IF s = <<>> THEN 1 ELSE s[1] * Prod(Tail(s))

RECURSIVE RSum(_)
RSum(s) ==
    IF s = <<>> THEN RZero ELSE RAdd(s[1], RSum(Tail(s)))

\* a function on 1..n as the tuple of its values
Tup(f) ==
    f \o <<>>

NDArray(shape, ints) ==
    [shape |-> shape, data |-> Tup([i \in 1..Prod(shape) |-> Int2R(ints[i])])]

Vec(ints) ==
    Tup([i \in 1..Len(ints) |-> Int2R(ints[i])])

Rank(X) ==
    Len(X.shape)

\* X[n, f] of a rank-2 array, 1-based
At2(X, n, f) ==
    X.data[(n - 1) * X.shape[2] + f]

\* X[n, c, h, w] of a rank-4 array, 1-based
At4(X, n, c, h, w) ==
    X.data[(((n - 1) * X.shape[2] + (c - 1)) * X.shape[3] + (h - 1)) * X.shape[4] + w]

\* numpy-style broadcasting of a trailing axis of widths a and b
BroadcastOK(a, b) ==
    a = b \/ a = 1 \/ b = 1

BroadcastLen(a, b) ==
    IF a = 1 THEN b ELSE a

BIdx(len, j) ==
    IF len = 1 THEN 1 ELSE j

\* row and column of flat position i of a rank-2 array of width Wd
RowOf(Wd, i) ==
    ((i - 1) \div Wd) + 1

ColOf(Wd, i) ==
    ((i - 1) % Wd) + 1

\* as ChannelOf, taking the channel for the innermost axis (N, H, W, C)
ChannelOfInnermost(shape, i) ==
    ((i - 1) % shape[2]) + 1

\* the channel of flat position i of an array of shape (N, C, H, W)
ChannelOf(shape, i) ==
    (((i - 1) \div (shape[3] * shape[4])) % shape[2]) + 1

----------------------------------------------------------------------------
(* Building blocks of the two transforms.                                   *)

\* as MeanAxis0, dividing by N - 1 (the sample statistic)
MeanAxis0Sample(X) ==
    Tup([f \in 1..X.shape[2] |->
           RDiv(RSum(Tup([n \in 1..X.shape[1] |-> At2(X, n, f)])), Int2R(X.shape[1] - 1))])

\* nd.mean(X, axis=0) of a rank-2 array: one value per column
MeanAxis0(X) ==
    Tup([f \in 1..X.shape[2] |->
           RDiv(RSum(Tup([n \in 1..X.shape[1] |-> At2(X, n, f)])), Int2R(X.shape[1]))])

\* nd.mean(X, axis=(0, 2, 3)) of a rank-4 array: one value per channel
MeanAxis023(X) ==
    LET N == X.shape[1]
        H == X.shape[3]
        W == X.shape[4]
    IN  Tup([c \in 1..X.shape[2] |->
               RDiv(RSum(Tup([k \in 1..(N * H * W) |->
                                At4(X, ((k - 1) \div (H * W)) + 1, c,
                                    (((k - 1) \div W) % H) + 1, ((k - 1) % W) + 1)])),
                    Int2R(N * H * W))])

\* X - v for a rank-2 X and a 1-d v, broadcast along axis 1
Sub2(X, v) ==
    LET Wd == BroadcastLen(X.shape[2], Len(v))
    IN  [shape |-> <<X.shape[1], Wd>>,
         data  |-> Tup([i \in 1..(X.shape[1] * Wd) |->
                          RSub(At2(X, RowOf(Wd, i), BIdx(X.shape[2], ColOf(Wd, i))),
                               v[BIdx(Len(v), ColOf(Wd, i))])])]

\* X - v.reshape((1, C, 1, 1)) for a rank-4 X
Sub4(X, v) ==
    [shape |-> X.shape,
     data  |-> Tup([i \in 1..Prod(X.shape) |->
                      RSub(X.data[i], v[ChannelOf(X.shape, i)])])]

\* D ** 2
Square(D) ==
    [shape |-> D.shape,
     data  |-> Tup([i \in 1..Len(D.data) |-> RMul(D.data[i], D.data[i])])]

\* as AddEps, leaving eps out
AddEpsDropped(v, eps) ==
    v

\* v + eps
AddEps(v, eps) ==
    Tup([j \in 1..Len(v) |-> RAdd(v[j], eps)])

\* D * 1.0 / nd.sqrt(r) for a rank-2 D and a 1-d r, broadcast along axis 1
DivSqrt2(D, r) ==
    LET Wd == BroadcastLen(D.shape[2], Len(r))
    IN  [shape |-> <<D.shape[1], Wd>>,
         data  |-> Tup([i \in 1..(D.shape[1] * Wd) |->
                          DivSqrt(At2(D, RowOf(Wd, i), BIdx(D.shape[2], ColOf(Wd, i))),
                                  r[BIdx(Len(r), ColOf(Wd, i))])])]

\* D * 1.0 / nd.sqrt(r.reshape((1, C, 1, 1))) for a rank-4 D
DivSqrt4(D, r) ==
    [shape |-> D.shape,
     data  |-> Tup([i \in 1..Prod(D.shape) |->
                      DivSqrt(D.data[i], r[ChannelOf(D.shape, i)])])]

\* gamma * X_hat + beta for a rank-2 X_hat, broadcast along axis 1
Affine2(gamma, X_hat, beta) ==
    LET Wd == BroadcastLen(BroadcastLen(X_hat.shape[2], Len(gamma)), Len(beta))
    IN  [shape |-> <<X_hat.shape[1], Wd>>,
         data  |-> Tup([i \in 1..(X_hat.shape[1] * Wd) |->
                          ScaleShift(gamma[BIdx(Len(gamma), ColOf(Wd, i))],
                                     At2(X_hat, RowOf(Wd, i),
                                         BIdx(X_hat.shape[2], ColOf(Wd, i))),
                                     beta[BIdx(Len(beta), ColOf(Wd, i))])])]

\* gamma.reshape((1, C, 1, 1)) * X_hat + beta.reshape((1, C, 1, 1))
Affine4(gamma, X_hat, beta) ==
    [shape |-> X_hat.shape,
     data  |-> Tup([i \in 1..Prod(X_hat.shape) |->
                      ScaleShift(gamma[ChannelOf(X_hat.shape, i)], X_hat.data[i],
                                 beta[ChannelOf(X_hat.shape, i)])])]

None ==
    "None"

Returned(out) ==
    [status |-> "ok", out |-> out]

Raised(exc) ==
    [status |-> exc, out |-> None]

----------------------------------------------------------------------------
(* pure_batch_norm(X, gamma, beta, eps)                                     *)

pure_batch_norm(X, gamma, beta, eps) ==
    IF Rank(X) \notin {2, 4}
    THEN Raised("ValueError")
    ELSE IF Rank(X) = 2
    THEN LET mean     == MeanAxis0(X)
             variance == MeanAxis0(Square(Sub2(X, mean)))
             X_hat    == DivSqrt2(Sub2(X, mean), AddEps(variance, eps))
         IN  IF BroadcastOK(X.shape[2], Len(gamma))
                /\ BroadcastOK(BroadcastLen(X.shape[2], Len(gamma)), Len(beta))
             THEN Returned(Affine2(gamma, X_hat, beta))
             ELSE Raised("MXNetError")
    ELSE LET C        == X.shape[2]
             mean     == MeanAxis023(X)
             variance == MeanAxis023(Square(Sub4(X, mean)))
             X_hat    == DivSqrt4(Sub4(X, mean), AddEps(variance, eps))
         IN  IF Len(gamma) = C /\ Len(beta) = C
             THEN Returned(Affine4(gamma, X_hat, beta))
             ELSE Raised("MXNetError")

----------------------------------------------------------------------------
(* batch_norm(X, gamma, beta, momentum, eps, scope_name, is_training)       *)
(* The globals _BN_MOVING_MEANS and _BN_MOVING_VARS are passed in as        *)
(* (means, vars, defined); defined = FALSE while the names are unbound.     *)

EmptyDict ==
    [s \in {} |-> <<>>]

\* as DictSet, writing v under every key
DictSetEveryKey(d, k, v) ==
    [s \in (DOMAIN d) \cup {k} |-> v]

DictSet(d, k, v) ==
    [s \in (DOMAIN d) \cup {k} |-> IF s = k THEN v ELSE d[s]]

\* the lookups _BN_MOVING_MEANS[scope_name], _BN_MOVING_VARS[scope_name]
Lookup(means, vars, defined, scope_name) ==
    IF ~defined THEN "NameError"
    ELSE IF scope_name \notin DOMAIN means THEN "KeyError"
    ELSE IF scope_name \notin DOMAIN vars THEN "KeyError"
    ELSE "ok"

\* what a branch hands on: the outcome and the mini-batch statistics
Branch(res, mean, variance) ==
    [status |-> res.status, out |-> res.out, mean |-> mean, variance |-> variance]

\* as DenseOut, with gamma and beta exchanged: beta * X_hat + gamma
DenseOutExchanged(gamma, X_hat, beta) ==
    IF BroadcastOK(X_hat.shape[2], Len(gamma))
       /\ BroadcastOK(BroadcastLen(X_hat.shape[2], Len(gamma)), Len(beta))
    THEN Returned(Affine2(beta, X_hat, gamma))
    ELSE Raised("MXNetError")

\* out = gamma * X_hat + beta of the dense branch
DenseOut(gamma, X_hat, beta) ==
    IF BroadcastOK(X_hat.shape[2], Len(gamma))
       /\ BroadcastOK(BroadcastLen(X_hat.shape[2], Len(gamma)), Len(beta))
    THEN Returned(Affine2(gamma, X_hat, beta))
    ELSE Raised("MXNetError")

\* out = gamma.reshape(..) * X_hat + beta.reshape(..) of the 2d conv branch
ConvOut(gamma, X_hat, beta) ==
    IF Len(gamma) = X_hat.shape[2] /\ Len(beta) = X_hat.shape[2]
    THEN Returned(Affine4(gamma, X_hat, beta))
    ELSE Raised("MXNetError")

\* the dense branch
DenseBranch(X, gamma, beta, eps, scope_name, is_training, means, vars, defined) ==
    LET mean     == MeanAxis0(X)
        variance == MeanAxis0(Square(Sub2(X, mean)))
        found    == Lookup(means, vars, defined, scope_name)
    IN  IF is_training
        THEN Branch(DenseOut(gamma, DivSqrt2(Sub2(X, mean), AddEps(variance, eps)), beta),
                    mean, variance)
        ELSE IF found # "ok"
        THEN Branch(Raised(found), mean, variance)
        ELSE IF ~BroadcastOK(X.shape[2], Len(means[scope_name]))
                \/ ~BroadcastOK(BroadcastLen(X.shape[2], Len(means[scope_name])),
                                Len(vars[scope_name]))
        THEN Branch(Raised("MXNetError"), mean, variance)
        ELSE Branch(DenseOut(gamma,
                             DivSqrt2(Sub2(X, means[scope_name]),
                                      AddEps(vars[scope_name], eps)),
                             beta),
                    mean, variance)

\* the 2d conv branch
ConvBranch(X, gamma, beta, eps, scope_name, is_training, means, vars, defined) ==
    LET C        == X.shape[2]
        mean     == MeanAxis023(X)
        variance == MeanAxis023(Square(Sub4(X, mean)))
        found    == Lookup(means, vars, defined, scope_name)
    IN  IF is_training
        THEN Branch(ConvOut(gamma, DivSqrt4(Sub4(X, mean), AddEps(variance, eps)), beta),
                    mean, variance)
        ELSE IF found # "ok"
        THEN Branch(Raised(found), mean, variance)
        ELSE IF Len(means[scope_name]) # C \/ Len(vars[scope_name]) # C
        THEN Branch(Raised("MXNetError"), mean, variance)
        ELSE Branch(ConvOut(gamma,
                            DivSqrt4(Sub4(X, means[scope_name]),
                                     AddEps(vars[scope_name], eps)),
                            beta),
                    mean, variance)

\* as Transform, normalising with the batch statistics when the lookup fails
TransformFallingBack(X, gamma, beta, eps, scope_name, is_training, means, vars, defined) ==
    IF Rank(X) \notin {2, 4}
    THEN Branch(Raised("ValueError"), None, None)
    ELSE IF Rank(X) = 2
    THEN DenseBranch(X, gamma, beta, eps, scope_name,
                     is_training \/ Lookup(means, vars, defined, scope_name) # "ok",
                     means, vars, defined)
    ELSE ConvBranch(X, gamma, beta, eps, scope_name,
                    is_training \/ Lookup(means, vars, defined, scope_name) # "ok",
                    means, vars, defined)

\* as Transform, with the test of is_training inverted
TransformInverted(X, gamma, beta, eps, scope_name, is_training, means, vars, defined) ==
    IF Rank(X) \notin {2, 4}
    THEN Branch(Raised("ValueError"), None, None)
    ELSE IF Rank(X) = 2
    THEN DenseBranch(X, gamma, beta, eps, scope_name, ~is_training, means, vars, defined)
    ELSE ConvBranch(X, gamma, beta, eps, scope_name, ~is_training, means, vars, defined)

\* "the usual batch norm transformation": the rank check and the two branches
Transform(X, gamma, beta, eps, scope_name, is_training, means, vars, defined) ==
    IF Rank(X) \notin {2, 4}
    THEN Branch(Raised("ValueError"), None, None)
    ELSE IF Rank(X) = 2
    THEN DenseBranch(X, gamma, beta, eps, scope_name, is_training, means, vars, defined)
    ELSE ConvBranch(X, gamma, beta, eps, scope_name, is_training, means, vars, defined)

\* as Decay, with the two weights exchanged
DecaySwapped(running, momentum, stat) ==
    Tup([j \in 1..BroadcastLen(Len(running), Len(stat)) |->
           RAdd(RMul(running[BIdx(Len(running), j)], RSub(ROne, momentum)),
                RMul(stat[BIdx(Len(stat), j)], momentum))])

\* as Decay, with the new statistic at full weight
DecayUnweighted(running, momentum, stat) ==
    Tup([j \in 1..BroadcastLen(Len(running), Len(stat)) |->
           RAdd(RMul(running[BIdx(Len(running), j)], momentum),
                stat[BIdx(Len(stat), j)])])

\* running * momentum + stat * (1.0 - momentum), elementwise with broadcasting
Decay(running, momentum, stat) ==
    Tup([j \in 1..BroadcastLen(Len(running), Len(stat)) |->
           RAdd(RMul(running[BIdx(Len(running), j)], momentum),
                RMul(stat[BIdx(Len(stat), j)], RSub(ROne, momentum)))])

\* as StoreStat, decaying the first statistics from zero instead of storing them
StoreStatFromZero(d, scope_name, momentum, stat) ==
    IF scope_name \notin DOMAIN d
    THEN [status |-> "ok",
          dict |-> DictSet(d, scope_name,
                           Tup([j \in 1..Len(stat) |->
                                  RMul(stat[j], RSub(ROne, momentum))]))]
    ELSE IF ~BroadcastOK(Len(d[scope_name]), Len(stat))
    THEN [status |-> "MXNetError", dict |-> d]
    ELSE [status |-> "ok",
          dict |-> DictSet(d, scope_name,
                           Tup([j \in 1..BroadcastLen(Len(d[scope_name]), Len(stat)) |->
                                  RAdd(RMul(d[scope_name][BIdx(Len(d[scope_name]), j)],
                                            momentum),
                                       RMul(stat[BIdx(Len(stat), j)],
                                            RSub(ROne, momentum)))]))]

\* if scope_name not in d: d[scope_name] = stat
\* else: d[scope_name] = d[scope_name] * momentum + stat * (1.0 - momentum)
StoreStat(d, scope_name, momentum, stat) ==
    IF scope_name \notin DOMAIN d
    THEN [status |-> "ok", dict |-> DictSet(d, scope_name, stat)]
    ELSE IF ~BroadcastOK(Len(d[scope_name]), Len(stat))
    THEN [status |-> "MXNetError", dict |-> d]
    ELSE [status |-> "ok", dict |-> DictSet(d, scope_name, Decay(d[scope_name], momentum, stat))]

\* as KeepMovingStatistics, creating the dictionaries anew on every call
KeepMovingStatisticsAnew(mean, variance, momentum, scope_name, means, vars, defined) ==
    [status |-> "ok",
     means |-> DictSet(EmptyDict, scope_name, mean),
     vars |-> DictSet(EmptyDict, scope_name, variance),
     defined |-> TRUE]

\* "to keep the moving statistics": creates the dictionaries when the names
\* are unbound, then stores the mean, then the variance
KeepMovingStatistics(mean, variance, momentum, scope_name, means, vars, defined) ==
    LET m0 == IF defined THEN means ELSE EmptyDict
        v0 == IF defined THEN vars ELSE EmptyDict
        um == StoreStat(m0, scope_name, momentum, mean)
        uv == StoreStat(v0, scope_name, momentum, variance)
    IN  IF um.status # "ok"
        THEN [status |-> um.status, means |-> m0, vars |-> v0, defined |-> TRUE]
        ELSE [status |-> uv.status, means |-> um.dict, vars |-> uv.dict, defined |-> TRUE]

\* as batch_norm, creating the dictionaries before the rank is checked
batch_normCreatingFirst(X, gamma, beta, momentum, eps, scope_name, is_training, means, vars, defined) ==
    LET t == Transform(X, gamma, beta, eps, scope_name, is_training,
                       IF defined THEN means ELSE EmptyDict,
                       IF defined THEN vars ELSE EmptyDict, TRUE)
        k == KeepMovingStatistics(t.mean, t.variance, momentum, scope_name,
                                  means, vars, defined)
    IN  IF t.status # "ok"
        THEN [status |-> t.status, out |-> None, mean |-> t.mean, variance |-> t.variance,
              means |-> IF defined THEN means ELSE EmptyDict,
              vars |-> IF defined THEN vars ELSE EmptyDict, defined |-> TRUE]
        ELSE [status |-> k.status, out |-> IF k.status = "ok" THEN t.out ELSE None,
              mean |-> t.mean, variance |-> t.variance,
              means |-> k.means, vars |-> k.vars, defined |-> k.defined]

\* as batch_norm, keeping the moving statistics before the transformation
batch_normUpdatingFirst(X, gamma, beta, momentum, eps, scope_name, is_training, means, vars, defined) ==
    IF Rank(X) \notin {2, 4}
    THEN [status |-> "ValueError", out |-> None, mean |-> None, variance |-> None,
          means |-> means, vars |-> vars, defined |-> defined]
    ELSE LET s == Transform(X, gamma, beta, eps, scope_name, TRUE, means, vars, defined)
             k == KeepMovingStatistics(s.mean, s.variance, momentum, scope_name,
                                       means, vars, defined)
             t == Transform(X, gamma, beta, eps, scope_name, is_training,
                            k.means, k.vars, k.defined)
         IN  IF k.status # "ok"
             THEN [status |-> k.status, out |-> None, mean |-> s.mean,
                   variance |-> s.variance,
                   means |-> k.means, vars |-> k.vars, defined |-> k.defined]
             ELSE [status |-> t.status, out |-> IF t.status = "ok" THEN t.out ELSE None,
                   mean |-> s.mean, variance |-> s.variance,
                   means |-> k.means, vars |-> k.vars, defined |-> k.defined]

\* the whole call: the result, and the globals as the call leaves them
batch_norm(X, gamma, beta, momentum, eps, scope_name, is_training, means, vars, defined) ==
    LET t == Transform(X, gamma, beta, eps, scope_name, is_training, means, vars, defined)
        k == KeepMovingStatistics(t.mean, t.variance, momentum, scope_name,
                                  means, vars, defined)
    IN  IF t.status # "ok"
        THEN [status |-> t.status, out |-> None, mean |-> t.mean, variance |-> t.variance,
              means |-> means, vars |-> vars, defined |-> defined]
        ELSE [status |-> k.status, out |-> IF k.status = "ok" THEN t.out ELSE None,
              mean |-> t.mean, variance |-> t.variance,
              means |-> k.means, vars |-> k.vars, defined |-> k.defined]

----------------------------------------------------------------------------
(* The inputs the calls are drawn from.                                     *)

\* the most calls one behaviour makes
MaxCalls ==
    2

\* layer identifiers, as passed by net
Scopes ==
    {"bn1", "bn2"}

\* the arrays A and B of the notebook's sanity checks
A ==
    NDArray(<<3, 2>>, <<1, 7, 5, 4, 6, 10>>)

B ==
    NDArray(<<2, 2, 2, 2>>, <<1, 6, 5, 7, 4, 3, 2, 5, 6, 3, 2, 4, 5, 3, 2, 5>>)

\* the batches: dense of widths 2 (twice), 1 and 3, 2d conv of 2 and 1
\* channels, and arrays of rank 1, 3 and 5
Batches ==
    { A,
      NDArray(<<2, 2>>, <<0, 2, 4, 2>>),
      NDArray(<<2, 1>>, <<0, 2>>),
      NDArray(<<2, 3>>, <<0, 1, 2, 1, 1, 6>>),
      B,
      NDArray(<<2, 1, 1, 2>>, <<1, 3, 3, 5>>),
      NDArray(<<2>>, <<1, 2>>),
      NDArray(<<1, 2, 1>>, <<1, 2>>),
      NDArray(<<1, 1, 2, 1, 1>>, <<1, 2>>) }

\* the feature or channel count of a batch (axis 1); 1 when there is no axis 1
Features(X) ==
    IF Rank(X) >= 2 THEN X.shape[2] ELSE 1

\* (gamma, beta) pairs of length F
Params(F) ==
    { [gamma |-> Vec(SubSeq(<<0, 0, 0>>, 1, F)), beta |-> Vec(SubSeq(<<1, -1, 2>>, 1, F))],
      [gamma |-> Vec(SubSeq(<<1, 2, -1>>, 1, F)), beta |-> Vec(SubSeq(<<0, 3, 1>>, 1, F))] }

\* gamma and beta of the notebook's sanity checks
ga ==
    Vec(<<1, 1>>)

be ==
    Vec(<<0, 0>>)

\* the (gamma, beta) pairs pure_batch_norm is called with: for A and B also
\* the pair of the sanity checks
PureParams(X) ==
    Params(Features(X)) \cup (IF X \in {A, B} THEN {[gamma |-> ga, beta |-> be]} ELSE {})

Momenta ==
    { Rat(9, 10), Rat(1, 2) }

Epsilons ==
    { Rat(1, 100000) }

----------------------------------------------------------------------------
(* The state: the two global dictionaries, whether they are bound yet, the  *)
(* last call with its result, the statistics each identifier has absorbed,  *)
(* and the number of calls made.                                            *)

VARIABLES BN_MOVING_MEANS, BN_MOVING_VARS, defined, last, fed, ncalls

vars == <<BN_MOVING_MEANS, BN_MOVING_VARS, defined, last, fed, ncalls>>

NoCall ==
    [fn |-> None]

Init ==
    /\ BN_MOVING_MEANS = EmptyDict
    /\ BN_MOVING_VARS = EmptyDict
    /\ defined = FALSE
    /\ last = NoCall
    /\ fed = [s \in Scopes |-> <<>>]
    /\ ncalls = 0

\* one call of batch_norm
BatchNormCall(X, p, momentum, eps, scope_name, is_training) ==
    /\ ncalls < MaxCalls
    /\ \E r \in { batch_norm(X, p.gamma, p.beta, momentum, eps, scope_name, is_training,
                             BN_MOVING_MEANS, BN_MOVING_VARS, defined) } :
        /\ ncalls' = ncalls + 1
        /\ BN_MOVING_MEANS' = r.means
        /\ BN_MOVING_VARS' = r.vars
        /\ defined' = r.defined
        /\ last' = [fn |-> "batch_norm", X |-> X, gamma |-> p.gamma, beta |-> p.beta,
                    momentum |-> momentum, eps |-> eps, scope_name |-> scope_name,
                    is_training |-> is_training, status |-> r.status, out |-> r.out]
        /\ fed' = IF r.status = "ok"
                  THEN [fed EXCEPT ![scope_name] =
                           Append(@, [mean |-> r.mean, variance |-> r.variance,
                                      momentum |-> momentum])]
                  ELSE fed

\* one call of pure_batch_norm
PureBatchNormCall(X, p, eps) ==
    /\ ncalls < MaxCalls
    /\ \E r \in { pure_batch_norm(X, p.gamma, p.beta, eps) } :
        /\ ncalls' = ncalls + 1
        /\ last' = [fn |-> "pure_batch_norm", X |-> X, gamma |-> p.gamma, beta |-> p.beta,
                    momentum |-> None, eps |-> eps, scope_name |-> None,
                    is_training |-> TRUE, status |-> r.status, out |-> r.out]
        /\ UNCHANGED <<BN_MOVING_MEANS, BN_MOVING_VARS, defined, fed>>

Next ==
    \/ \E X \in Batches, momentum \in Momenta, eps \in Epsilons,
          scope_name \in Scopes, is_training \in BOOLEAN :
          \E p \in Params(Features(X)) :
             BatchNormCall(X, p, momentum, eps, scope_name, is_training)
    \/ \E X \in Batches, eps \in Epsilons :
          \E p \in PureParams(X) :
             PureBatchNormCall(X, p, eps)

Spec ==
    Init /\ [][Next]_vars

----------------------------------------------------------------------------
(* Vocabulary of the properties.                                            *)

\* the step is a call of batch_norm / the state follows one
BNStep ==
    last'.fn = "batch_norm"

AfterBN ==
    last.fn = "batch_norm"

AfterCall ==
    last.fn # None

\* the mean and the variance of a batch, per feature or per channel
MeanOfBatch(X) ==
    IF Rank(X) = 2 THEN MeanAxis0(X) ELSE MeanAxis023(X)

VarianceOfBatch(X) ==
    IF Rank(X) = 2
    THEN MeanAxis0(Square(Sub2(X, MeanAxis0(X))))
    ELSE MeanAxis023(Square(Sub4(X, MeanAxis023(X))))

\* running * momentum + stat * (1 - momentum), component by component
Blend(running, momentum, stat) ==
    [j \in 1..BroadcastLen(Len(running), Len(stat)) |->
        RAdd(RMul(momentum, running[BIdx(Len(running), j)]),
             RMul(RSub(ROne, momentum), stat[BIdx(Len(stat), j)]))]

\* the identifier has an entry
HasEntry(means, isDefined, scope_name) ==
    isDefined /\ scope_name \in DOMAIN means

StoreUnchanged ==
    /\ defined' = defined
    /\ BN_MOVING_MEANS' = BN_MOVING_MEANS
    /\ BN_MOVING_VARS' = BN_MOVING_VARS

----------------------------------------------------------------------------
(* C1: a batch_norm call with is_training = False leaves the stored        *)
(* running mean and running variance of every layer identifier as they     *)
(* were before the call.                                                    *)

C1_InferenceLeavesStore ==
    [][ (BNStep /\ ~last'.is_training) => StoreUnchanged ]_vars

----------------------------------------------------------------------------
(* C2: every batch_norm call that completes on an identifier that already  *)
(* has an entry, in training or in inference mode, replaces the running    *)
(* mean by running_mean * momentum + batch_mean * (1 - momentum) and the   *)
(* running variance likewise, with the statistics of the batch passed to   *)
(* that call; so after two completed calls with statistics m1, v1 then     *)
(* m2, v2 on a fresh identifier the entry is m1 * momentum + m2 * (1 -     *)
(* momentum) and v1 * momentum + v2 * (1 - momentum).                      *)

C2_Step ==
    (BNStep /\ last'.status = "ok"
        /\ HasEntry(BN_MOVING_MEANS, defined, last'.scope_name))
    => /\ BN_MOVING_MEANS'[last'.scope_name]
            = Blend(BN_MOVING_MEANS[last'.scope_name], last'.momentum,
                    MeanOfBatch(last'.X))
       /\ BN_MOVING_VARS'[last'.scope_name]
            = Blend(BN_MOVING_VARS[last'.scope_name], last'.momentum,
                    VarianceOfBatch(last'.X))

C2_AfterTwo ==
    \A s \in Scopes :
        Len(fed[s]) = 2 =>
            /\ BN_MOVING_MEANS[s] = Blend(fed[s][1].mean, fed[s][2].momentum, fed[s][2].mean)
            /\ BN_MOVING_VARS[s]
                 = Blend(fed[s][1].variance, fed[s][2].momentum, fed[s][2].variance)

C2_RunningUpdate ==
    [][C2_Step]_vars /\ []C2_AfterTwo

\* an inference-mode call has just updated an existing entry, and a
\* training-mode call would have too: two calls were absorbed
C2_Witness ==
    /\ AfterBN /\ last.status = "ok" /\ ~last.is_training
    /\ Len(fed[last.scope_name]) = 2
    /\ fed[last.scope_name][1].mean # fed[last.scope_name][2].mean

----------------------------------------------------------------------------
(* C3: after the first batch_norm call that completes with an identifier   *)
(* that has no entry yet, the stored running mean and running variance of  *)
(* that identifier are exactly the mean and the variance of that call's    *)
(* batch, whatever momentum was passed.                                     *)

C3_FirstCallStoresBatchStatistics ==
    [][ (BNStep /\ last'.status = "ok"
            /\ ~HasEntry(BN_MOVING_MEANS, defined, last'.scope_name))
        => /\ HasEntry(BN_MOVING_MEANS', defined', last'.scope_name)
           /\ BN_MOVING_MEANS'[last'.scope_name] = MeanOfBatch(last'.X)
           /\ BN_MOVING_VARS'[last'.scope_name] = VarianceOfBatch(last'.X) ]_vars

C3_Witness ==
    /\ AfterBN /\ last.status = "ok"
    /\ Len(fed[last.scope_name]) = 1
    /\ BN_MOVING_MEANS[last.scope_name] = MeanOfBatch(last.X)
    /\ BN_MOVING_VARS[last.scope_name] = VarianceOfBatch(last.X)
    /\ last.momentum = Rat(9, 10)

----------------------------------------------------------------------------
(* C4: a batch_norm call with is_training = False for an identifier that   *)
(* has no entry (the dictionaries may not exist yet) raises instead of     *)
(* returning an output, and leaves the identifier without an entry.        *)

C4_InferenceWithoutEntryFails ==
    [][ (BNStep /\ ~last'.is_training
            /\ ~HasEntry(BN_MOVING_MEANS, defined, last'.scope_name))
        => /\ last'.status # "ok"
           /\ last'.out = None
           /\ (Rank(last'.X) \in {2, 4}
                 => last'.status = IF defined THEN "KeyError" ELSE "NameError")
           /\ ~HasEntry(BN_MOVING_MEANS', defined', last'.scope_name)
           /\ ~HasEntry(BN_MOVING_VARS', defined', last'.scope_name) ]_vars

\* both failures have happened: the dictionaries exist but not the key
C4_Witness ==
    /\ AfterBN /\ ~last.is_training /\ last.status = "KeyError"
    /\ defined /\ last.scope_name \notin DOMAIN BN_MOVING_MEANS

----------------------------------------------------------------------------
(* C5: batch_norm and pure_batch_norm raise ValueError and return nothing  *)
(* for an input whose rank is neither 2 nor 4, and such a batch_norm call  *)
(* leaves the dictionaries exactly as they were, in either mode and for    *)
(* any identifier.                                                          *)

C5_State ==
    (AfterCall /\ Rank(last.X) \notin {2, 4})
    => (last.status = "ValueError" /\ last.out = None)

C5_Step ==
    (BNStep /\ Rank(last'.X) \notin {2, 4}) => StoreUnchanged

C5_InvalidRankRaises ==
    []C5_State /\ [][C5_Step]_vars

\* a rank-3 batch was refused in training mode while an entry exists
C5_Witness ==
    /\ AfterBN /\ Rank(last.X) = 3 /\ last.is_training /\ last.status = "ValueError"
    /\ HasEntry(BN_MOVING_MEANS, defined, last.scope_name)

----------------------------------------------------------------------------
(* C6: the running statistics of different identifiers are independent: a  *)
(* batch_norm call with one identifier, in any mode, returning or raising, *)
(* leaves the entry of every other identifier as it was, so the entry of   *)
(* an identifier is determined by the batches passed with that identifier, *)
(* in their order.                                                          *)

\* the entry a sequence of absorbed statistics leaves behind
RECURSIVE Folded(_, _)
Folded(seq, field) ==
    IF Len(seq) = 1
    THEN seq[1][field]
    ELSE Blend(Folded(SubSeq(seq, 1, Len(seq) - 1), field),
               seq[Len(seq)].momentum, seq[Len(seq)][field])

C6_Others ==
    BNStep =>
        \A other \in Scopes \ {last'.scope_name} :
            /\ HasEntry(BN_MOVING_MEANS', defined', other)
                 = HasEntry(BN_MOVING_MEANS, defined, other)
            /\ HasEntry(BN_MOVING_VARS', defined', other)
                 = HasEntry(BN_MOVING_VARS, defined, other)
            /\ HasEntry(BN_MOVING_MEANS, defined, other)
                 => /\ BN_MOVING_MEANS'[other] = BN_MOVING_MEANS[other]
                    /\ BN_MOVING_VARS'[other] = BN_MOVING_VARS[other]
            /\ fed'[other] = fed[other]

\* fed[s] is the statistics of the batches passed with s to completed calls
C6_Own ==
    BNStep =>
        fed'[last'.scope_name]
          = IF last'.status = "ok"
            THEN Append(fed[last'.scope_name],
                        [mean |-> MeanOfBatch(last'.X),
                         variance |-> VarianceOfBatch(last'.X),
                         momentum |-> last'.momentum])
            ELSE fed[last'.scope_name]

C6_Determined ==
    \A s \in Scopes :
        fed[s] # <<>> =>
            /\ BN_MOVING_MEANS[s] = Folded(fed[s], "mean")
            /\ BN_MOVING_VARS[s] = Folded(fed[s], "variance")

----------------------------------------------------------------------------
(* C7: in every reachable state the two dictionaries have the same keys,   *)
(* namely the identifiers with which a call has completed; a key is added  *)
(* only by a completed call with that identifier, no key is ever removed,  *)
(* and a completed call on a key that exists decays its entry and never    *)
(* sets it back to the raw statistics of the batch.                         *)

C7_Keys ==
    /\ DOMAIN BN_MOVING_MEANS = DOMAIN BN_MOVING_VARS
    /\ DOMAIN BN_MOVING_MEANS = {s \in Scopes : fed[s] # <<>>}
    /\ ~defined => DOMAIN BN_MOVING_MEANS = {}
    /\ \A s \in DOMAIN BN_MOVING_MEANS :
          Len(BN_MOVING_MEANS[s]) = Len(BN_MOVING_VARS[s])

C7_Growth ==
    /\ defined => defined'
    /\ DOMAIN BN_MOVING_MEANS \subseteq DOMAIN BN_MOVING_MEANS'
    /\ DOMAIN BN_MOVING_VARS \subseteq DOMAIN BN_MOVING_VARS'
    /\ \A s \in (DOMAIN BN_MOVING_MEANS') \ (DOMAIN BN_MOVING_MEANS) :
          BNStep /\ last'.status = "ok" /\ s = last'.scope_name
    /\ \A s \in DOMAIN BN_MOVING_MEANS :
          \/ /\ BN_MOVING_MEANS'[s] = BN_MOVING_MEANS[s]
             /\ BN_MOVING_VARS'[s] = BN_MOVING_VARS[s]
          \/ /\ BNStep /\ last'.status = "ok" /\ s = last'.scope_name
             /\ BN_MOVING_MEANS'[s]
                  = Blend(BN_MOVING_MEANS[s], last'.momentum, MeanOfBatch(last'.X))
             /\ BN_MOVING_VARS'[s]
                  = Blend(BN_MOVING_VARS[s], last'.momentum, VarianceOfBatch(last'.X))

C7_OneEntryPerIdentifier ==
    []C7_Keys /\ [][C7_Growth]_vars

\* a second call completed on a key and another identifier has none
C7_Witness ==
    /\ AfterBN /\ last.status = "ok"
    /\ Len(fed[last.scope_name]) = 2
    /\ DOMAIN BN_MOVING_MEANS = {last.scope_name}
    /\ DOMAIN BN_MOVING_VARS = {last.scope_name}

----------------------------------------------------------------------------
(* C8: in training mode batch_norm normalises with the statistics of the   *)
(* batch it was passed and never with the stored ones: training-mode calls *)
(* with the same X, gamma, beta and eps that return, return the same       *)
(* output whatever the dictionaries hold, whatever identifier and whatever *)
(* momentum they are given.  (A training-mode call raises when the         *)
(* identifier holds an entry whose length cannot be broadcast against the  *)
(* batch statistics; such a call returns nothing.)                          *)

\* the same training-mode call made now, with another identifier and momentum
TrainAgain(scope_name, momentum) ==
    batch_norm(last.X, last.gamma, last.beta, momentum, last.eps, scope_name, TRUE,
               BN_MOVING_MEANS, BN_MOVING_VARS, defined)

----------------------------------------------------------------------------
(* C9: with gamma zero for every feature, what batch_norm returns (in      *)
(* training mode, and in inference mode with an entry) and what            *)
(* pure_batch_norm returns is beta at every position of the input:         *)
(* out[n, f] = beta[f] for rank 2 and out[n, c, h, w] = beta[c] for rank   *)
(* 4.                                                                       *)

AllZero(gamma) ==
    \A j \in 1..Len(gamma) : gamma[j] = RZero

\* the value b with no root term
Exactly(b) ==
    [rat |-> b, num |-> RZero, rad |-> ROne]

----------------------------------------------------------------------------
(* C10: every batch_norm or pure_batch_norm call that returns, for a       *)
(* rank-2 or rank-4 input with gamma and beta of the length of axis 1,     *)
(* returns an array of exactly the input's shape, in training and in       *)
(* inference mode.                                                          *)

C10_OutputHasInputShape ==
    (AfterCall /\ last.status = "ok") => last.out.shape = last.X.shape

----------------------------------------------------------------------------
(* C11: for a rank-2 input of N rows the batch mean of feature f is the    *)
(* sum of column f divided by N and the batch variance is the sum of the   *)
(* squared deviations of column f from that mean divided by N (not N - 1). *)
(* batch_norm feeds exactly these statistics to its store, and every       *)
(* element pure_batch_norm returns is gamma[f] * (X[n, f] - mean[f]) /     *)
(* sqrt(variance[f] + eps) + beta[f].  For A = [[1,7],[5,4],[6,10]] the    *)
(* means are [4, 7] and the variances [14/3, 6], and with gamma = [1, 1],  *)
(* beta = [0, 0] the output has 0 in row 0 of column 1 and in rows 1 and 2 *)
(* of column 1 two values that are negatives of each other.                *)

\* X[1, f] + ... + X[n, f]
RECURSIVE ColumnSum(_, _, _)
ColumnSum(X, f, n) ==
    IF n = 0 THEN RZero ELSE RAdd(ColumnSum(X, f, n - 1), At2(X, n, f))

ColumnMean(X, f) ==
    RDiv(ColumnSum(X, f, X.shape[1]), Int2R(X.shape[1]))

\* (X[1, f] - m)^2 + ... + (X[n, f] - m)^2
RECURSIVE ColumnSquares(_, _, _, _)
ColumnSquares(X, f, m, n) ==
    IF n = 0 THEN RZero
    ELSE RAdd(ColumnSquares(X, f, m, n - 1),
              RMul(RSub(At2(X, n, f), m), RSub(At2(X, n, f), m)))

ColumnVariance(X, f) ==
    RDiv(ColumnSquares(X, f, ColumnMean(X, f), X.shape[1]), Int2R(X.shape[1]))

\* the statistics the latest completed batch_norm call fed to the store
LastFed ==
    fed[last.scope_name][Len(fed[last.scope_name])]

\* -x of a value with a root term
Negated(x) ==
    [rat |-> RNeg(x.rat), num |-> RNeg(x.num), rad |-> x.rad]

C11_Fed ==
    (AfterBN /\ last.status = "ok" /\ Rank(last.X) = 2) =>
        /\ Len(LastFed.mean) = last.X.shape[2]
        /\ Len(LastFed.variance) = last.X.shape[2]
        /\ \A f \in 1..last.X.shape[2] :
              /\ LastFed.mean[f] = ColumnMean(last.X, f)
              /\ LastFed.variance[f] = ColumnVariance(last.X, f)

C11_Pure ==
    (last.fn = "pure_batch_norm" /\ last.status = "ok" /\ Rank(last.X) = 2) =>
        \A n \in 1..last.X.shape[1], f \in 1..last.X.shape[2] :
            At2(last.out, n, f) =
                Alg(last.beta[f],
                    RMul(last.gamma[f], RSub(At2(last.X, n, f), ColumnMean(last.X, f))),
                    RAdd(ColumnVariance(last.X, f), last.eps))

C11_Sanity ==
    /\ ColumnMean(A, 1) = Int2R(4) /\ ColumnMean(A, 2) = Int2R(7)
    /\ ColumnVariance(A, 1) = Rat(14, 3) /\ ColumnVariance(A, 2) = Int2R(6)
    /\ (last.fn = "pure_batch_norm" /\ last.X = A /\ last.gamma = ga /\ last.beta = be) =>
          /\ last.status = "ok"
          /\ At2(last.out, 1, 2) = Exactly(RZero)
          /\ At2(last.out, 2, 2) = Negated(At2(last.out, 3, 2))

C11_DenseStatistics ==
    C11_Fed /\ C11_Pure /\ C11_Sanity

\* the sanity check on A has been run, and batch_norm has absorbed A
C11_Witness ==
    /\ last.fn = "pure_batch_norm" /\ last.X = A /\ last.gamma = ga /\ last.beta = be
    /\ last.status = "ok"
    /\ At2(last.out, 2, 2).num = Int2R(-3)
    /\ \E s \in Scopes : Len(fed[s]) = 1 /\ fed[s][1].mean = Vec(<<4, 7>>)

----------------------------------------------------------------------------
(* C12: for a rank-4 input of shape (N, C, H, W) there is exactly one mean *)
(* and one variance per channel c, each over all N*H*W values X[n, c, h,   *)
(* w] of that channel; batch_norm feeds these to its store, and every      *)
(* position of channel c of the output is normalised with channel c's      *)
(* statistic (the batch's in pure_batch_norm and in training mode, the     *)
(* stored entry's in inference mode) and scaled and shifted with gamma[c]  *)
(* and beta[c].  For the (2,2,2,2) input B the channel means are 34/8 and  *)
(* 29/8.                                                                    *)

\* the positions (n, h, w) of one channel
Cells(X) ==
    (1..X.shape[1]) \X (1..X.shape[3]) \X (1..X.shape[4])

\* the sum of (X[n, c, h, w] - m)^k over the cells, k = 1 or 2
RECURSIVE ChannelSum(_, _, _, _, _)
ChannelSum(X, c, m, k, cells) ==
    IF cells = {} THEN RZero
    ELSE LET t == CHOOSE u \in cells : TRUE
             d == RSub(At4(X, t[1], c, t[2], t[3]), m)
         IN  RAdd(IF k = 1 THEN d ELSE RMul(d, d), ChannelSum(X, c, m, k, cells \ {t}))

ChannelMean(X, c) ==
    RDiv(ChannelSum(X, c, RZero, 1, Cells(X)), Int2R(Cardinality(Cells(X))))

ChannelVariance(X, c) ==
    RDiv(ChannelSum(X, c, ChannelMean(X, c), 2, Cells(X)), Int2R(Cardinality(Cells(X))))

\* out[n, c, h, w] = gamma[c] * (X[n, c, h, w] - m[c]) / sqrt(v[c] + eps) + beta[c]
PerChannel(call, m, v) ==
    /\ call.out.shape = call.X.shape
    /\ \A c \in 1..call.X.shape[2] : \A t \in Cells(call.X) :
          At4(call.out, t[1], c, t[2], t[3]) =
              Alg(call.beta[c],
                  RMul(call.gamma[c], RSub(At4(call.X, t[1], c, t[2], t[3]), m[c])),
                  RAdd(v[c], call.eps))

\* the channel statistics of a batch, one per channel
ChannelMeans(X) ==
    [c \in 1..X.shape[2] |-> ChannelMean(X, c)]

ChannelVariances(X) ==
    [c \in 1..X.shape[2] |-> ChannelVariance(X, c)]

C12_Fed ==
    (AfterBN /\ last.status = "ok" /\ Rank(last.X) = 4) =>
        /\ LastFed.mean = ChannelMeans(last.X)
        /\ LastFed.variance = ChannelVariances(last.X)

C12_Batch ==
    (AfterCall /\ last.status = "ok" /\ Rank(last.X) = 4 /\ last.is_training) =>
        PerChannel(last, ChannelMeans(last.X), ChannelVariances(last.X))

C12_Stored ==
    (BNStep /\ last'.status = "ok" /\ Rank(last'.X) = 4 /\ ~last'.is_training) =>
        PerChannel(last', BN_MOVING_MEANS[last'.scope_name],
                   BN_MOVING_VARS[last'.scope_name])

C12_Sanity ==
    ChannelMeans(B) = <<Rat(34, 8), Rat(29, 8)>>

C12_PerChannelStatistics ==
    /\ [](C12_Fed /\ C12_Batch /\ C12_Sanity)
    /\ [][C12_Stored]_vars

\* an inference-mode call on B, with a different gamma per channel, after
\* a call that stored B's channel means
C12_Witness ==
    /\ AfterBN /\ last.status = "ok" /\ last.X = B /\ ~last.is_training
    /\ last.gamma[1] # last.gamma[2]
    /\ Len(fed[last.scope_name]) = 2
    /\ fed[last.scope_name][1].mean = <<Rat(34, 8), Rat(29, 8)>>
    /\ fed[last.scope_name][1].mean[1] # fed[last.scope_name][1].mean[2]

----------------------------------------------------------------------------
(* C13: for a rank-2 input in training mode and every feature f, the       *)
(* normalised values X_hat[., f] (the output with beta[f] taken off and    *)
(* gamma[f] divided out) have batch mean 0 and batch variance v / (v +     *)
(* eps), v the batch variance of column f: exactly 0 when the column is    *)
(* constant, and otherwise short of 1 by eps / (v + eps), which is within  *)
(* eps of 1 when v + eps >= 1.                                              *)

\* the call is a completed training-mode batch_norm call on a rank-2 batch
\* whose gamma has no zero, so that X_hat can be read off the output
DenseTraining ==
    /\ AfterBN /\ last.status = "ok" /\ last.is_training /\ Rank(last.X) = 2
    /\ \A f \in 1..Len(last.gamma) : last.gamma[f] # RZero

\* X_hat[n, f] = (out[n, f] - beta[f]) / gamma[f]
XHatAt(n, f) ==
    [rat |-> RDiv(RSub(At2(last.out, n, f).rat, last.beta[f]), last.gamma[f]),
     num |-> RDiv(At2(last.out, n, f).num, last.gamma[f]),
     rad |-> At2(last.out, n, f).rad]

\* the numerators of X_hat[1..n, f] added up
RECURSIVE XHatNumerators(_, _)
XHatNumerators(n, f) ==
    IF n = 0 THEN RZero ELSE RAdd(XHatNumerators(n - 1, f), XHatAt(n, f).num)

\* the squares of X_hat[1..n, f] added up: (num / sqrt(rad))^2 = num^2 / rad
RECURSIVE XHatSquares(_, _)
XHatSquares(n, f) ==
    IF n = 0 THEN RZero
    ELSE RAdd(XHatSquares(n - 1, f),
              RDiv(RMul(XHatAt(n, f).num, XHatAt(n, f).num), XHatAt(n, f).rad))

\* every X_hat[n, f] is a multiple of 1 / sqrt(v + eps), and they add up to 0
XHatMeanIsZero(f) ==
    /\ \A n \in 1..last.X.shape[1] :
          /\ XHatAt(n, f).rat = RZero
          /\ XHatAt(n, f).num # RZero =>
                XHatAt(n, f).rad = RAdd(ColumnVariance(last.X, f), last.eps)
    /\ XHatNumerators(last.X.shape[1], f) = RZero

\* the batch variance of X_hat[., f], its mean being 0
XHatVariance(f) ==
    RDiv(XHatSquares(last.X.shape[1], f), Int2R(last.X.shape[1]))

XHatMoments(f) ==
    /\ XHatMeanIsZero(f)
    /\ XHatVariance(f) =
          RDiv(ColumnVariance(last.X, f), RAdd(ColumnVariance(last.X, f), last.eps))
    /\ ColumnVariance(last.X, f) = RZero => XHatVariance(f) = RZero

C13_NormalisedMoments ==
    DenseTraining =>
        \A f \in 1..last.X.shape[2] :
            /\ XHatMoments(f)
            /\ RSub(ROne, XHatVariance(f)) =
                  RDiv(last.eps, RAdd(ColumnVariance(last.X, f), last.eps))
            /\ RLeq(ROne, RAdd(ColumnVariance(last.X, f), last.eps)) =>
                  RLeq(RSub(ROne, XHatVariance(f)), last.eps)

\* the statement with "within eps of 1 whenever the column is not constant"
C13_WithinEpsWheneverNotConstant ==
    DenseTraining =>
        \A f \in 1..last.X.shape[2] :
            /\ XHatMoments(f)
            /\ ColumnVariance(last.X, f) # RZero =>
                  RLeq(RSub(ROne, XHatVariance(f)), last.eps)

\* a batch with a constant column, a column of variance 1/4 and one of
\* variance 4
C13_Witness ==
    /\ DenseTraining
    /\ \E f \in 1..last.X.shape[2] : ColumnVariance(last.X, f) = RZero
    /\ \E f \in 1..last.X.shape[2] : ColumnVariance(last.X, f) = Rat(1, 4)
    /\ \E f \in 1..last.X.shape[2] : ColumnVariance(last.X, f) = Int2R(4)

----------------------------------------------------------------------------
(* C14: an inference-mode batch_norm call that returns has normalised with *)
(* the running mean and variance its identifier held when the call began,  *)
(* not with the entry the call leaves behind and not with the statistics   *)
(* of its own batch; the update that follows blends exactly those batch    *)
(* statistics into the entry.                                               *)

\* out[n, j] = gamma[j] * (X[n, j] - m[j]) / sqrt(v[j] + eps) + beta[j], the
\* feature axis broadcast
PerFeature(call, m, v) ==
    LET Wd == BroadcastLen(call.X.shape[2], Len(m))
    IN  /\ call.out.shape = <<call.X.shape[1], Wd>>
        /\ \A n \in 1..call.X.shape[1], j \in 1..Wd :
              At2(call.out, n, j) =
                  Alg(call.beta[BIdx(Len(call.beta), j)],
                      RMul(call.gamma[BIdx(Len(call.gamma), j)],
                           RSub(At2(call.X, n, BIdx(call.X.shape[2], j)),
                                m[BIdx(Len(m), j)])),
                      RAdd(v[BIdx(Len(v), j)], call.eps))

NormalisedWith(call, m, v) ==
    IF Rank(call.X) = 2 THEN PerFeature(call, m, v) ELSE PerChannel(call, m, v)

C14_InferenceReadsBeforeUpdate ==
    [][ (BNStep /\ last'.status = "ok" /\ ~last'.is_training) =>
          /\ HasEntry(BN_MOVING_MEANS, defined, last'.scope_name)
          /\ NormalisedWith(last', BN_MOVING_MEANS[last'.scope_name],
                            BN_MOVING_VARS[last'.scope_name])
          /\ BN_MOVING_MEANS'[last'.scope_name] =
                Blend(BN_MOVING_MEANS[last'.scope_name], last'.momentum,
                      MeanOfBatch(last'.X))
          /\ BN_MOVING_VARS'[last'.scope_name] =
                Blend(BN_MOVING_VARS[last'.scope_name], last'.momentum,
                      VarianceOfBatch(last'.X)) ]_vars

\* an inference-mode call has returned whose batch statistics differ from the
\* entry it read, and whose output differs from what the entry it left
\* behind, or its own batch statistics, would have given
C14_Witness ==
    /\ AfterBN /\ last.status = "ok" /\ ~last.is_training
    /\ Len(fed[last.scope_name]) = 2
    /\ fed[last.scope_name][1].mean # fed[last.scope_name][2].mean
    /\ NormalisedWith(last, fed[last.scope_name][1].mean, fed[last.scope_name][1].variance)
    /\ ~NormalisedWith(last, BN_MOVING_MEANS[last.scope_name],
                       BN_MOVING_VARS[last.scope_name])
    /\ ~NormalisedWith(last, fed[last.scope_name][2].mean, fed[last.scope_name][2].variance)

----------------------------------------------------------------------------
(* C15: with momentum anywhere in [0, 1], the ends included, after any     *)
(* sequence of completed batch_norm calls on an identifier each component  *)
(* of its running mean lies between the smallest and the largest           *)
(* corresponding batch mean of those calls, each component of its running  *)
(* variance between the smallest and the largest corresponding batch       *)
(* variance, and no component of the running variance is negative.         *)

\* the momenta of [0, 1]: those of the calls above and the two ends
MomentaClosed ==
    Momenta \cup {RZero, ROne}

\* dense batches of widths 2 and 1, whose statistics differ
DenseBatches ==
    {X \in Batches : Rank(X) = 2 /\ X.shape[2] < 3}

\* calls of batch_norm with a momentum of [0, 1]
NextClosed ==
    \E X \in DenseBatches, momentum \in MomentaClosed, eps \in Epsilons,
       scope_name \in Scopes, is_training \in BOOLEAN :
       \E p \in {q \in Params(Features(X)) : ~AllZero(q.gamma)} :
          BatchNormCall(X, p, momentum, eps, scope_name, is_training)

SpecClosed ==
    Init /\ [][NextClosed]_vars

\* component j of the statistics the calls on s absorbed
FedComponents(s, field, j) ==
    {fed[s][k][field][BIdx(Len(fed[s][k][field]), j)] : k \in 1..Len(fed[s])}

\* x lies between the smallest and the largest value of S
Between(x, S) ==
    (\E lo \in S : RLeq(lo, x)) /\ (\E hi \in S : RLeq(x, hi))

C15_RunningStatisticsBounded ==
    \A s \in Scopes :
        HasEntry(BN_MOVING_MEANS, defined, s) =>
            /\ \A j \in 1..Len(BN_MOVING_MEANS[s]) :
                  Between(BN_MOVING_MEANS[s][j], FedComponents(s, "mean", j))
            /\ \A j \in 1..Len(BN_MOVING_VARS[s]) :
                  /\ Between(BN_MOVING_VARS[s][j], FedComponents(s, "variance", j))
                  /\ RLeq(RZero, BN_MOVING_VARS[s][j])

\* two calls with different statistics have been absorbed, the second with
\* momentum 0, and the entry is the second call's statistics
C15_Witness ==
    \E s \in Scopes :
        /\ Len(fed[s]) = 2
        /\ Len(fed[s][1].mean) = Len(fed[s][2].mean)
        /\ \A j \in 1..Len(fed[s][1].mean) : fed[s][1].mean[j] # fed[s][2].mean[j]
        /\ fed[s][2].momentum = RZero
        /\ BN_MOVING_MEANS[s] = fed[s][2].mean

----------------------------------------------------------------------------
(* C16: batch_norm in training mode and pure_batch_norm agree on (X,       *)
(* gamma, beta, eps) for every store the program reaches and every         *)
(* scope_name and momentum: for a rank other than 2 and 4 both raise; for  *)
(* rank 2 or 4 pure_batch_norm returns, and batch_norm returns the same    *)
(* output unless scope_name holds an entry whose length cannot be          *)
(* broadcast against the batch statistics, in which case batch_norm raises *)
(* from its store update.                                                   *)

\* pure_batch_norm on the arguments of the latest call
PureAgain ==
    pure_batch_norm(last.X, last.gamma, last.beta, last.eps)

\* the update of scope_name's entry with the statistics of X can be computed
Absorbs(scope_name, X) ==
    HasEntry(BN_MOVING_MEANS, defined, scope_name) =>
        BroadcastOK(Len(BN_MOVING_MEANS[scope_name]), Features(X))

\* the two results are the same: both returned the same output
SameResult(b, p) ==
    b.status = "ok" /\ p.status = "ok" /\ b.out = p.out

C16_TrainingMatchesPure ==
    AfterCall =>
        \A scope_name \in Scopes, momentum \in Momenta :
            \A b \in {TrainAgain(scope_name, momentum)} : \A p \in {PureAgain} :
                IF Rank(last.X) \notin {2, 4}
                THEN b.status = "ValueError" /\ p.status = "ValueError"
                ELSE IF Absorbs(scope_name, last.X)
                THEN SameResult(b, p)
                ELSE p.status = "ok" /\ b.status = "MXNetError" /\ b.out = None

\* the statement without the exception: equal outputs whatever the store holds
C16_SameFunctionWhateverTheStore ==
    AfterCall =>
        \A scope_name \in Scopes, momentum \in Momenta :
            \A b \in {TrainAgain(scope_name, momentum)} : \A p \in {PureAgain} :
                IF Rank(last.X) \notin {2, 4}
                THEN b.status = "ValueError" /\ p.status = "ValueError"
                ELSE SameResult(b, p)

\* a training-mode call has returned pure_batch_norm's output on an
\* identifier that held other statistics, which it blended into the entry
C16_Witness ==
    /\ AfterBN /\ last.status = "ok" /\ last.is_training
    /\ Len(fed[last.scope_name]) = 2
    /\ fed[last.scope_name][1].mean # fed[last.scope_name][2].mean
    /\ BN_MOVING_MEANS[last.scope_name] # fed[last.scope_name][2].mean
    /\ last.out = PureAgain.out
    /\ \A momentum \in Momenta :
          SameResult(TrainAgain(last.scope_name, momentum), PureAgain)

====
